---- MODULE Spec2Model ----
\* Hybrid thermal-camera display (display_hybrid.py): the capture thread, the
\* main thread switching between run_local_mode and run_remote_mode, the
\* uvicorn server threads started by start_web_server, the HTTP handlers of
\* create_web_app and the gen_frames streaming generators, all sharing AppState,
\* and the recording commands of ThermalCamera (thermal_camera.py).
EXTENDS Integers, Sequences, FiniteSets, TLC

\* ---------------------------------------------------------------- bounds
MaxSessions == 2      \* Remote sessions (start_web_server calls) explored
MaxGens == 1          \* concurrently open /video_feed generators
MaxFrames == 3        \* frames the device delivers
MaxRecordings == 2    \* recordings started (cv2.VideoWriter objects created)
MaxTime == 6          \* seconds the clock advances
PlaneWidth == 2       \* columns of the thermal plane (settings.width)
PlaneHeight == 2      \* rows of the thermal plane (settings.height)

\* ------------------------------------------------------- program constants
maxsize == 1          \* queue.Queue(maxsize=1)
None == 0             \* Python None for web_server / frame slots

NoSink == 0           \* camera.videoOut before the first start_recording
NoTime == 0 - 1       \* camera.start_time before the first start_recording
SecondsPerDay == 86400  \* "%H:%M:%S" of time.gmtime wraps at 24 hours
NoStatus == 0 - 1     \* the process has not exited
max_retries == 5      \* def init_camera_with_retry(max_retries=5, retry_delay=3)
ExitFailure == 1      \* sys.exit(1)
NoTemp == 0 - 100000  \* no temperature computed (below every temperature in hundredths)
AlphaMax == 300       \* min(3.0, ...): contrast ceiling, in hundredths
AlphaMin == 10        \* max(0.1, ...): contrast floor, in hundredths
AlphaStep == 10       \* alpha + 0.1 / alpha - 0.1, in hundredths
ByteBase == 256       \* int(pixel[1]) * 256
CountsPerKelvin == 64 \* ... / 64
ZeroCelsius == 27315  \* ... - 273.15, in hundredths
GracePeriod == 5      \* ignore_quit_until = time.time() + 5.0
NoStreak == <<>>      \* no command has been issued

Sessions == 1..MaxSessions
Gens == 1..MaxGens
Issuers == {"ui", "http"}  \* callers of handle_command: run_local_mode, /command/{cmd}

VARIABLES
    mode,              \* state.mode: "local" | "remote"
    running,           \* state.running
    camera,            \* state.camera: "ok" | "none"
    switch_requested,  \* state.switch_requested: "none" | "local" | "remote"
    frame_queue,       \* state.frame_queue: sequence of frame ids, oldest first
    web_server,        \* state.web_server: None or the session whose Server it is
    should_exit,       \* should_exit flag of each session's uvicorn.Server
    srv,               \* each session's server thread: "none" | "started" | "listening" | "failed" | "stopped"
    serving,           \* the Server object each session's thread runs (None before it runs)
    nsessions,         \* number of start_web_server calls so far
    mpc,               \* position of the main thread
    cpc,               \* position of the capture thread
    frame,             \* local variable `frame` of camera_capture_loop (None when unset)
    gpc,               \* position of each gen_frames generator
    nframes,           \* frames read from the device so far
    released,          \* camera.close() has released the capture device
    recording,         \* state.camera.settings.recording
    videoOut,          \* camera.videoOut: the sink it refers to (NoSink while unset)
    start_time,        \* camera.start_time (NoTime while unset)
    elapsed,           \* camera.settings.elapsed, in seconds of the day
    sinks,             \* for every cv2.VideoWriter created: how often release() was called on it
    now,               \* time.time(), in seconds since main first read the clock
    kpc,               \* position of each command issuer inside handle_command
    exc,               \* the exception camera_capture_loop has caught ("none" outside the handler)
    recorded,          \* this iteration's frame: "no" | "due" (recording seen set) | "yes" (write called)
    alpha,             \* state.camera.settings.alpha, in hundredths
    colormap,          \* state.camera.settings.colormap
    cmapText,          \* state.camera.settings.cmapText
    hud,               \* state.camera.settings.hud
    streak,            \* history: the run of equal commands in progress and the settings it began with
    ignore_quit_until, \* local variable ignore_quit_until of run_local_mode (NoTime while unset)
    quit_ignored,      \* the last pygame.event.get() of the local loop held a QUIT that was ignored
    startup_until,     \* history: ignore_quit_until of the first run_local_mode call
    entry,             \* the program that was started: "display_hybrid" | "main"
    attempt,           \* init_camera_with_retry at startup: attempts made
    delays,            \* init_camera_with_retry at startup: time.sleep(retry_delay) calls made
    exit_status,       \* status the process exited with (NoStatus while it has not)
    thdata,            \* the thermal plane handed to find_extreme_temperature: rows of <<low, high>> samples
    pixel,             \* the <<low, high>> sample handed to calculate_temperature
    temp,              \* result of calculate_temperature(pixel), in hundredths (NoTemp before the call)
    extreme,           \* results of find_extreme_temperature(thdata, ...) (<<>> before the calls)
    log                \* history: f for "frame f was put", -f for "frame f was returned by a get"

vars == <<mode, running, camera, switch_requested, frame_queue, web_server,
          should_exit, srv, serving, nsessions, mpc, cpc, frame, gpc, nframes,
          released, recording, videoOut, start_time, elapsed, sinks, now, kpc,
          exc, recorded, alpha, colormap, cmapText, hud, streak, ignore_quit_until,
          quit_ignored, startup_until, entry, attempt, delays, exit_status, thdata,
          pixel, temp, extreme, log>>

sharedVars == <<mode, running, switch_requested, web_server, should_exit>>

\* the ThermalCamera object state.camera refers to: its settings and attributes
camVars == <<recording, videoOut, start_time, elapsed>>

\* recording, clock, command issuers and the capture thread's handler state
recVars == <<camVars, sinks, now, kpc, exc, recorded>>

\* the view fields of CameraSettings
setVars == <<alpha, colormap, cmapText, hud>>

\* the QUIT grace period of run_local_mode
quitVars == <<ignore_quit_until, quit_ignored, startup_until>>

\* startup: init_camera_with_retry as called by main / lifespan
startVars == <<entry, attempt, delays, exit_status>>

\* inputs and results of the radiometry functions of utils.py
decodeVars == <<thdata, pixel, temp, extreme>>

\* ------------------------------------------------------------ AppState
InitProgram ==
    /\ mode = "local"
    /\ running = TRUE
    /\ switch_requested = "none"
    /\ frame_queue = <<>>
    /\ web_server = None
    /\ should_exit = [s \in Sessions |-> FALSE]
    /\ srv = [s \in Sessions |-> "none"]
    /\ serving = [s \in Sessions |-> None]
    /\ nsessions = 0
    /\ frame = None
    /\ gpc = [g \in Gens |-> "idle"]
    /\ nframes = 0
    /\ released = FALSE
    /\ recording = FALSE
    /\ videoOut = NoSink
    /\ start_time = NoTime
    /\ elapsed = 0
    /\ sinks = <<>>
    /\ now = 0
    /\ kpc = [k \in Issuers |-> "idle"]
    /\ exc = "none"
    /\ recorded = "no"
    /\ log = <<>>
    /\ streak = NoStreak
    /\ ignore_quit_until = NoTime
    /\ quit_ignored = FALSE
    /\ startup_until = NoTime

\* CameraSettings(): the defaults of the view fields
CameraSettings == [alpha |-> 100, colormap |-> 0, cmapText |-> "Jet", hud |-> TRUE]

InitSettings ==
    /\ alpha = CameraSettings.alpha
    /\ colormap = CameraSettings.colormap
    /\ cmapText = CameraSettings.cmapText
    /\ hud = CameraSettings.hud

\* display_hybrid.py after main has initialised the camera at the first
\* attempt and started the capture thread
InitThreads ==
    /\ entry = "display_hybrid"
    /\ camera = "ok"
    /\ attempt = 1
    /\ delays = 0
    /\ exit_status = NoStatus
    /\ mpc = "main"
    /\ cpc = "loop"

\* no radiometry function has been applied
InitDecode ==
    /\ thdata = <<>>
    /\ pixel = <<0, 0>>
    /\ temp = NoTemp
    /\ extreme = <<>>

Init == InitProgram /\ InitSettings /\ InitThreads /\ InitDecode

\* The process lives until main returns or dies; daemon threads die with it
\* (the main thread's own actions are guarded by its position).
ProcessAlive == mpc \notin {"done", "crashed", "exited"}

\* --------------------------------------------------------------- startup
\* Before main() of display_hybrid.py, or lifespan() of main.py, calls
\* init_camera_with_retry(): no camera, no capture thread.
InitStartup ==
    /\ InitProgram /\ InitSettings /\ InitDecode
    /\ entry \in {"display_hybrid", "main"}
    /\ camera = "none"
    /\ attempt = 0
    /\ delays = 0
    /\ exit_status = NoStatus
    /\ mpc = "init"
    /\ cpc = "unstarted"

\* init_camera_with_retry: for attempt in range(max_retries): try:
\* camera = ThermalCamera(); return / except: if attempt < max_retries - 1: sleep
init_camera_with_retry_attempt ==
    /\ mpc = "init"
    /\ attempt' = attempt + 1
    /\ \E ok \in BOOLEAN :
          IF ok THEN camera' = "ok" /\ mpc' = "init_done"
                ELSE /\ UNCHANGED camera
                     /\ mpc' = IF attempt + 1 < max_retries THEN "init_sleep"
                                                           ELSE "init_done"
    /\ UNCHANGED <<sharedVars, frame_queue, srv, serving, nsessions, cpc, frame, gpc,
                   nframes, released, recVars, setVars, streak, quitVars, entry,
                   delays, exit_status, decodeVars, log>>

\* init_camera_with_retry: time.sleep(retry_delay), then the next attempt
init_camera_with_retry_sleep ==
    /\ mpc = "init_sleep"
    /\ delays' = delays + 1
    /\ mpc' = "init"
    /\ UNCHANGED <<sharedVars, camera, frame_queue, srv, serving, nsessions, cpc, frame,
                   gpc, nframes, released, recVars, setVars, streak, quitVars, entry,
                   attempt, exit_status, decodeVars, log>>

\* display_hybrid.py main: if state.camera is None: sys.exit(1); otherwise the
\* capture thread is started and main goes on to its mode loop
main_startup ==
    /\ mpc = "init_done"
    /\ entry = "display_hybrid"
    /\ IF camera = "none"
          THEN exit_status' = ExitFailure /\ mpc' = "exited" /\ UNCHANGED cpc
          ELSE cpc' = "loop" /\ mpc' = "main" /\ UNCHANGED exit_status
    /\ UNCHANGED <<sharedVars, camera, frame_queue, srv, serving, nsessions, frame,
                   gpc, nframes, released, recVars, setVars, streak, quitVars, entry,
                   attempt, delays, decodeVars, log>>

\* main.py lifespan: if not init_camera_with_retry(): print a warning; the
\* camera thread is started in either case and the application serves (the
\* application of main.py is not followed further)
lifespan_startup ==
    /\ mpc = "init_done"
    /\ entry = "main"
    /\ cpc' = "camera_loop"
    /\ mpc' = "lifespan"
    /\ UNCHANGED <<sharedVars, camera, frame_queue, srv, serving, nsessions, frame,
                   gpc, nframes, released, recVars, setVars, streak, quitVars,
                   startVars, decodeVars, log>>

\* ----------------------------------------------------------- queue.Queue
\* utils.COLORMAPS: the display names, in order (the cv2 colormap codes are not
\* part of the state)
COLORMAPS == <<"Jet", "Hot", "Magma", "Inferno", "Plasma", "Bone", "Spring",
               "Autumn", "Viridis", "Parula", "Inv Rainbow">>

\* the fields of camera.settings (CameraSettings)
Settings == [alpha |-> alpha, colormap |-> colormap, cmapText |-> cmapText,
             hud |-> hud, recording |-> recording, elapsed |-> elapsed]

QEmpty(q) == Len(q) = 0
QFull(q) == Len(q) >= maxsize
QHead(q) == Head(q)
QPop(q) == Tail(q)
QPush(q, f) == Append(q, f)

\* The history of the frame channel: a put of frame f appends f, a get that
\* returns frame f appends -f.
Published(h, f) == Append(h, f)
Consumed(h, f) == Append(h, 0 - f)

\* state.frame_queue.get(timeout=...) returning a frame: the oldest frame
\* leaves the queue and is handed to the caller
queue_get ==
    /\ ~QEmpty(frame_queue)
    /\ log' = Consumed(log, QHead(frame_queue))
    /\ frame_queue' = QPop(frame_queue)

\* ------------------------------------------------- camera_capture_loop
\* while state.running: / if state.camera is None: sleep(1); continue
camera_capture_loop_while ==
    /\ ProcessAlive
    /\ cpc = "loop"
    /\ ~running \/ camera # "none"
    /\ cpc' = IF ~running THEN "exit" ELSE "process"
    /\ UNCHANGED <<sharedVars, camera, frame_queue, srv, serving, nsessions, mpc, frame,
                   gpc, nframes, recVars, released, log,
                   setVars, streak, quitVars, startVars, decodeVars>>

\* frame = state.camera.process_frame(): cap.read() delivers the next frame
\* and every stage of process_frame succeeds
camera_capture_loop_read_ok ==
    /\ ProcessAlive
    /\ cpc = "process"
    /\ ~released
    /\ nframes < MaxFrames
    /\ nframes' = nframes + 1
    /\ frame' = nframes + 1
    /\ recorded' = "no"
    /\ cmapText' = COLORMAPS[colormap + 1]
    /\ cpc' = "elapsed"
    /\ UNCHANGED <<sharedVars, camera, frame_queue, srv, serving, nsessions, mpc, gpc,
                   released, camVars, sinks, now, kpc, exc, log,
                   alpha, colormap, hud, streak, quitVars, startVars, decodeVars>>

\* frame = state.camera.process_frame(): cap.read() fails (always, once the
\* device was released by close()), process_frame returns None
camera_capture_loop_read_none ==
    /\ ProcessAlive
    /\ cpc = "process"
    /\ frame' = None
    /\ cpc' = "reinit"
    /\ UNCHANGED <<sharedVars, camera, frame_queue, srv, serving, nsessions, mpc, gpc,
                   nframes, released, recVars, log,
                   setVars, streak, quitVars, startVars, decodeVars>>

\* the stages of process_frame after a successful cap.read(): splitting the
\* frame and the temperature computations, create_heatmap, draw_overlay
Stages == {"decode", "heatmap", "overlay"}

\* frame = state.camera.process_frame(): cap.read() succeeds and a stage of
\* process_frame raises; no stage is wrapped in try/except, so the exception
\* leaves process_frame and is caught by `except Exception as e`
camera_capture_loop_process_raise ==
    /\ ProcessAlive
    /\ cpc = "process"
    /\ ~released
    /\ \E stage \in Stages : exc' = stage
    /\ cpc' = "except"
    /\ UNCHANGED <<sharedVars, camera, frame_queue, srv, serving, nsessions, mpc, frame,
                   gpc, nframes, released, camVars, sinks, now, kpc, recorded, log,
                   setVars, streak, quitVars, startVars, decodeVars>>

\* a command still running on a ThermalCamera that state.camera no longer
\* refers to has no effect on the camera in use
Detached(k) == [i \in Issuers |-> IF k[i] = "idle" THEN "idle" ELSE "detached"]

\* sleep(2); state.camera = init_camera_with_retry(max_retries=3); continue
\* (a new ThermalCamera has a new CameraSettings and no videoOut, start_time)
camera_capture_loop_reinit ==
    /\ ProcessAlive
    /\ cpc = "reinit"
    /\ \E ok \in BOOLEAN :
          /\ camera' = IF ok THEN "ok" ELSE "none"
          /\ released' = IF ok THEN FALSE ELSE released
    /\ recording' = FALSE
    /\ videoOut' = NoSink
    /\ start_time' = NoTime
    /\ elapsed' = 0
    /\ alpha' = CameraSettings.alpha
    /\ colormap' = CameraSettings.colormap
    /\ cmapText' = CameraSettings.cmapText
    /\ hud' = CameraSettings.hud
    /\ kpc' = Detached(kpc)
    /\ cpc' = "loop"
    /\ UNCHANGED <<sharedVars, frame_queue, srv, serving, nsessions, mpc, frame, gpc,
                   nframes, sinks, now, exc, recorded, log,
                   streak, quitVars, startVars, decodeVars>>

\* time.strftime("%H:%M:%S", time.gmtime(d)): the label is d's second of the day
FormatElapsed(d) == d % SecondsPerDay

\* update_elapsed_time() with the test of settings.recording left out
camera_capture_loop_elapsed_unguarded ==
    /\ ProcessAlive
    /\ cpc = "elapsed"
    /\ cpc' = "elapsed_set"
    /\ UNCHANGED <<elapsed, exc>>
    /\ UNCHANGED <<sharedVars, camera, frame_queue, srv, serving, nsessions, mpc, frame,
                   gpc, nframes, released, recording, videoOut, start_time, sinks, now,
                   kpc, recorded, log,
                   setVars, streak, quitVars, startVars, decodeVars>>

\* state.camera.update_elapsed_time(): if self.settings.recording: the test of
\* the flag; the assignment that follows is a later step of the thread
camera_capture_loop_elapsed ==
    /\ ProcessAlive
    /\ cpc = "elapsed"
    /\ cpc' = IF recording THEN "elapsed_set" ELSE "rec_check"
    /\ UNCHANGED <<elapsed, exc>>
    /\ UNCHANGED <<sharedVars, camera, frame_queue, srv, serving, nsessions, mpc, frame,
                   gpc, nframes, released, recording, videoOut, start_time, sinks, now,
                   kpc, recorded, log,
                   setVars, streak, quitVars, startVars, decodeVars>>

\* self.settings.elapsed = ...(time.time() - self.start_time); reading
\* start_time before start_recording has assigned it raises AttributeError
camera_capture_loop_elapsed_set ==
    /\ ProcessAlive
    /\ cpc = "elapsed_set"
    /\ IF start_time = NoTime
          THEN exc' = "elapsed" /\ cpc' = "except" /\ UNCHANGED elapsed
          ELSE /\ elapsed' = FormatElapsed(now - start_time)
               /\ cpc' = "rec_check"
               /\ UNCHANGED exc
    /\ UNCHANGED <<sharedVars, camera, frame_queue, srv, serving, nsessions, mpc, frame,
                   gpc, nframes, released, recording, videoOut, start_time, sinks, now,
                   kpc, recorded, log,
                   setVars, streak, quitVars, startVars, decodeVars>>

\* faulty variant: the frame is recorded only when the queue has room
camera_capture_loop_rec_check_room ==
    /\ ProcessAlive
    /\ cpc = "rec_check"
    /\ recorded' = IF recording THEN "due" ELSE recorded
    /\ cpc' = IF recording /\ QEmpty(frame_queue) THEN "write" ELSE "qcheck"
    /\ UNCHANGED <<sharedVars, camera, frame_queue, srv, serving, nsessions, mpc, frame,
                   gpc, nframes, released, camVars, sinks, now, kpc, exc, log,
                   setVars, streak, quitVars, startVars, decodeVars>>

\* if state.camera.settings.recording:
camera_capture_loop_rec_check ==
    /\ ProcessAlive
    /\ cpc = "rec_check"
    /\ recorded' = IF recording THEN "due" ELSE recorded
    /\ cpc' = IF recording THEN "write" ELSE "qcheck"
    /\ UNCHANGED <<sharedVars, camera, frame_queue, srv, serving, nsessions, mpc, frame,
                   gpc, nframes, released, camVars, sinks, now, kpc, exc, log,
                   setVars, streak, quitVars, startVars, decodeVars>>

\* state.camera.videoOut.write(frame) returns
camera_capture_loop_write ==
    /\ ProcessAlive
    /\ cpc = "write"
    /\ videoOut # NoSink
    /\ recorded' = "yes"
    /\ cpc' = "qcheck"
    /\ UNCHANGED <<sharedVars, camera, frame_queue, srv, serving, nsessions, mpc, frame,
                   gpc, nframes, released, camVars, sinks, now, kpc, exc, log,
                   setVars, streak, quitVars, startVars, decodeVars>>

\* state.camera.videoOut.write(frame) raises (the sink fails, or videoOut is
\* unset); the exception is caught by `except Exception as e`
camera_capture_loop_write_raise ==
    /\ ProcessAlive
    /\ cpc = "write"
    /\ exc' = "write"
    /\ cpc' = "except"
    /\ UNCHANGED <<sharedVars, camera, frame_queue, srv, serving, nsessions, mpc, frame,
                   gpc, nframes, released, camVars, sinks, now, kpc, recorded, log,
                   setVars, streak, quitVars, startVars, decodeVars>>

\* faulty variant: the handler leaves the loop
camera_capture_loop_except_break ==
    /\ ProcessAlive
    /\ cpc = "except"
    /\ exc' = "none"
    /\ cpc' = "exit"
    /\ UNCHANGED <<sharedVars, camera, frame_queue, srv, serving, nsessions, mpc, frame,
                   gpc, nframes, released, camVars, sinks, now, kpc, recorded, log,
                   setVars, streak, quitVars, startVars, decodeVars>>

\* except Exception as e: print(...); time.sleep(1)
camera_capture_loop_except ==
    /\ ProcessAlive
    /\ cpc = "except"
    /\ exc' = "none"
    /\ cpc' = "loop"
    /\ UNCHANGED <<sharedVars, camera, frame_queue, srv, serving, nsessions, mpc, frame,
                   gpc, nframes, released, camVars, sinks, now, kpc, recorded, log,
                   setVars, streak, quitVars, startVars, decodeVars>>

\* faulty variant: the frame is appended to an unbounded queue, nothing is evicted
camera_capture_loop_qcheck_append ==
    /\ ProcessAlive
    /\ cpc = "qcheck"
    /\ frame_queue' = QPush(frame_queue, frame)
    /\ log' = Published(log, frame)
    /\ cpc' = "loop"
    /\ UNCHANGED <<sharedVars, camera, srv, serving, nsessions, mpc, frame, gpc,
                   nframes, recVars, released,
                   setVars, streak, quitVars, startVars, decodeVars>>

\* faulty variant: the frame is pushed on a LIFO stack, nothing is evicted
camera_capture_loop_qcheck_lifo ==
    /\ ProcessAlive
    /\ cpc = "qcheck"
    /\ frame_queue' = <<frame>> \o frame_queue
    /\ log' = Published(log, frame)
    /\ cpc' = "loop"
    /\ UNCHANGED <<sharedVars, camera, srv, serving, nsessions, mpc, frame, gpc,
                   nframes, recVars, released,
                   setVars, streak, quitVars, startVars, decodeVars>>

\* if not state.frame_queue.empty():
camera_capture_loop_qcheck ==
    /\ ProcessAlive
    /\ cpc = "qcheck"
    /\ cpc' = IF ~QEmpty(frame_queue) THEN "evict" ELSE "put"
    /\ UNCHANGED <<sharedVars, camera, frame_queue, srv, serving, nsessions, mpc, frame,
                   gpc, nframes, recVars, released, log,
                   setVars, streak, quitVars, startVars, decodeVars>>

\* faulty variant: the old frame is left in the queue
camera_capture_loop_evict_skip ==
    /\ ProcessAlive
    /\ cpc = "evict"
    /\ cpc' = "put"
    /\ UNCHANGED <<sharedVars, camera, frame_queue, srv, serving, nsessions, mpc,
                   frame, gpc, nframes, recVars, released, log,
                   setVars, streak, quitVars, startVars, decodeVars>>

\* try: state.frame_queue.get_nowait() / except queue.Empty: pass
camera_capture_loop_evict ==
    /\ ProcessAlive
    /\ cpc = "evict"
    /\ frame_queue' = IF QEmpty(frame_queue) THEN frame_queue ELSE QPop(frame_queue)
    /\ cpc' = "put"
    /\ UNCHANGED <<sharedVars, camera, srv, serving, nsessions, mpc, frame, gpc, nframes,
                   released, recording, videoOut, start_time, elapsed, sinks, now, kpc,
          exc, recorded, log,
                   setVars, streak, quitVars, startVars, decodeVars>>

\* state.frame_queue.put(frame): blocks while the queue is full
camera_capture_loop_put ==
    /\ ProcessAlive
    /\ cpc = "put"
    /\ ~QFull(frame_queue)
    /\ frame_queue' = QPush(frame_queue, frame)
    /\ log' = Published(log, frame)
    /\ cpc' = "loop"
    /\ UNCHANGED <<sharedVars, camera, srv, serving, nsessions, mpc, frame, gpc, nframes,
                   recVars, released,
                   setVars, streak, quitVars, startVars, decodeVars>>

\* the capture thread while no recording is in progress
camera_capture_loop_not_recording ==
    \/ camera_capture_loop_while
    \/ camera_capture_loop_read_ok
    \/ camera_capture_loop_read_none
    \/ camera_capture_loop_process_raise
    \/ camera_capture_loop_reinit
    \/ camera_capture_loop_elapsed
    \/ camera_capture_loop_rec_check
    \/ camera_capture_loop_except
    \/ camera_capture_loop_qcheck
    \/ camera_capture_loop_evict
    \/ camera_capture_loop_put

camera_capture_loop ==
    \/ camera_capture_loop_not_recording
    \/ camera_capture_loop_elapsed_set
    \/ camera_capture_loop_write
    \/ camera_capture_loop_write_raise

\* ---------------------------------------------------------- ThermalCamera
\* videoOut.release() on sink i, counted up to "more than once"
Release(s, i) == [s EXCEPT ![i] = IF @ >= 2 THEN 2 ELSE @ + 1]

Goto(k, pos) == [kpc EXCEPT ![k] = pos]

\* The clock advances by a second. It counts from the first reading, which
\* run_local_mode takes for ignore_quit_until.
Tick ==
    /\ startup_until # NoTime
    /\ now < MaxTime
    /\ now' = now + 1
    /\ UNCHANGED <<sharedVars, camera, frame_queue, srv, serving, nsessions, mpc, cpc,
                   frame, gpc, nframes, released, camVars, sinks, kpc, exc, recorded,
                   log,
                   setVars, streak, quitVars, startVars, decodeVars>>

\* toggle_recording: if self.settings.recording: stop_recording() else: start_recording()
toggle_recording(k) ==
    /\ kpc[k] = "toggle"
    /\ kpc' = Goto(k, IF recording THEN "stop" ELSE "start")
    /\ UNCHANGED <<sharedVars, camera, frame_queue, srv, serving, nsessions, mpc, cpc,
                   frame, gpc, nframes, released, camVars, sinks, now, exc, recorded,
                   log,
                   setVars, streak, quitVars, startVars, decodeVars>>

\* start_recording: if not self.settings.recording: self.videoOut = cv2.VideoWriter(...)
start_recording_open(k) ==
    /\ kpc[k] = "start"
    /\ IF ~recording
          THEN /\ sinks' = Append(sinks, 0)
               /\ videoOut' = Len(sinks) + 1
               /\ kpc' = Goto(k, "start_flag")
          ELSE /\ kpc' = Goto(k, "update")
               /\ UNCHANGED <<sinks, videoOut>>
    /\ UNCHANGED <<sharedVars, camera, frame_queue, srv, serving, nsessions, mpc, cpc,
                   frame, gpc, nframes, released, recording, start_time, elapsed, now,
                   exc, recorded, log,
                   setVars, streak, quitVars, startVars, decodeVars>>

\* start_recording: self.settings.recording = True
start_recording_flag(k) ==
    /\ kpc[k] = "start_flag"
    /\ recording' = TRUE
    /\ kpc' = Goto(k, "start_time")
    /\ UNCHANGED <<sharedVars, camera, frame_queue, srv, serving, nsessions, mpc, cpc,
                   frame, gpc, nframes, released, videoOut, start_time, elapsed, sinks,
                   now, exc, recorded, log,
                   setVars, streak, quitVars, startVars, decodeVars>>

\* start_recording: self.start_time = time.time()
start_recording_time(k) ==
    /\ kpc[k] = "start_time"
    /\ start_time' = now
    /\ kpc' = Goto(k, "update")
    /\ UNCHANGED <<sharedVars, camera, frame_queue, srv, serving, nsessions, mpc, cpc,
                   frame, gpc, nframes, released, recording, videoOut, elapsed, sinks,
                   now, exc, recorded, log,
                   setVars, streak, quitVars, startVars, decodeVars>>

\* faulty variant: the sink is released but the flag stays set
stop_recording_release_keep(k) ==
    /\ kpc[k] = "stop"
    /\ IF recording
          THEN /\ sinks' = Release(sinks, videoOut)
               /\ kpc' = Goto(k, "stop_elapsed")
          ELSE /\ kpc' = Goto(k, "update")
               /\ UNCHANGED sinks
    /\ UNCHANGED <<sharedVars, camera, frame_queue, srv, serving, nsessions, mpc, cpc,
                   frame, gpc, nframes, released, camVars, now, exc, recorded, log,
                   setVars, streak, quitVars, startVars, decodeVars>>

\* stop_recording: if self.settings.recording: self.videoOut.release()
stop_recording_release(k) ==
    /\ kpc[k] = "stop"
    /\ IF recording
          THEN /\ sinks' = Release(sinks, videoOut)
               /\ kpc' = Goto(k, "stop_flag")
          ELSE /\ kpc' = Goto(k, "update")
               /\ UNCHANGED sinks
    /\ UNCHANGED <<sharedVars, camera, frame_queue, srv, serving, nsessions, mpc, cpc,
                   frame, gpc, nframes, released, camVars, now, exc, recorded, log,
                   setVars, streak, quitVars, startVars, decodeVars>>

\* stop_recording: self.settings.recording = False
stop_recording_flag(k) ==
    /\ kpc[k] = "stop_flag"
    /\ recording' = FALSE
    /\ kpc' = Goto(k, "stop_elapsed")
    /\ UNCHANGED <<sharedVars, camera, frame_queue, srv, serving, nsessions, mpc, cpc,
                   frame, gpc, nframes, released, videoOut, start_time, elapsed, sinks,
                   now, exc, recorded, log,
                   setVars, streak, quitVars, startVars, decodeVars>>

\* stop_recording: self.settings.elapsed = "00:00:00"
stop_recording_elapsed(k) ==
    /\ kpc[k] = "stop_elapsed"
    /\ elapsed' = 0
    /\ kpc' = Goto(k, "update")
    /\ UNCHANGED <<sharedVars, camera, frame_queue, srv, serving, nsessions, mpc, cpc,
                   frame, gpc, nframes, released, recording, videoOut, start_time, sinks,
                   now, exc, recorded, log,
                   setVars, streak, quitVars, startVars, decodeVars>>

\* handle_command: self.update_elapsed_time(), then the command returns
\* (AttributeError while start_time is unset: the exception reaches the
\* caller, which is fatal to the main thread)
update_elapsed_time(k) ==
    /\ kpc[k] = "update"
    /\ kpc' = Goto(k, "idle")
    /\ IF recording /\ start_time = NoTime
          THEN /\ mpc' = IF k = "ui" THEN "crashed" ELSE mpc
               /\ UNCHANGED elapsed
          ELSE /\ elapsed' = IF recording THEN FormatElapsed(now - start_time) ELSE elapsed
               /\ UNCHANGED mpc
    /\ UNCHANGED <<sharedVars, camera, frame_queue, srv, serving, nsessions, cpc,
                   frame, gpc, nframes, released, recording, videoOut, start_time, sinks,
                   now, exc, recorded, log,
                   setVars, streak, quitVars, startVars, decodeVars>>

\* a command running on a ThermalCamera that was replaced returns
handle_command_detached(k) ==
    /\ kpc[k] = "detached"
    /\ kpc' = Goto(k, "idle")
    /\ UNCHANGED <<sharedVars, camera, frame_queue, srv, serving, nsessions, mpc, cpc,
                   frame, gpc, nframes, released, camVars, sinks, now, exc, recorded,
                   log,
                   setVars, streak, quitVars, startVars, decodeVars>>

\* handle_command('r') between its call and its return
handle_command_r(k) ==
    \/ toggle_recording(k)
    \/ start_recording_open(k)
    \/ start_recording_flag(k)
    \/ start_recording_time(k)
    \/ stop_recording_release(k)
    \/ stop_recording_flag(k)
    \/ stop_recording_elapsed(k)
    \/ update_elapsed_time(k)

handle_command(k) == handle_command_r(k) \/ handle_command_detached(k)

\* ---- settings commands: 'm', 'h', 'f', 'v' ----

\* the rest of the state, which no settings command touches
cmdFrame == <<sharedVars, camera, frame_queue, srv, serving, nsessions, mpc, cpc, frame,
              gpc, nframes, released, camVars, sinks, now, exc, recorded, log, streak,
              quitVars, startVars, decodeVars>>

\* self.settings.colormap = self.settings.colormap + 1, the modulus left out
cycle_colormap_index_nomod(k) ==
    /\ kpc[k] = "m"
    /\ colormap' = colormap + 1
    /\ kpc' = Goto(k, "m_text")
    /\ UNCHANGED <<cmdFrame, alpha, cmapText, hud>>

\* self.settings.colormap = (self.settings.colormap + 1) % len(COLORMAPS)
cycle_colormap_index(k) ==
    /\ kpc[k] = "m"
    /\ colormap' = (colormap + 1) % Len(COLORMAPS)
    /\ kpc' = Goto(k, "m_text")
    /\ UNCHANGED <<cmdFrame, alpha, cmapText, hud>>

\* self.settings.cmapText = COLORMAPS[self.settings.colormap][1]; an index past
\* the end raises IndexError in the caller
cycle_colormap_text(k) ==
    /\ kpc[k] = "m_text"
    /\ IF colormap + 1 \in DOMAIN COLORMAPS
          THEN /\ cmapText' = COLORMAPS[colormap + 1]
               /\ kpc' = Goto(k, "update")
          ELSE /\ kpc' = Goto(k, "raised")
               /\ UNCHANGED cmapText
    /\ UNCHANGED <<cmdFrame, alpha, colormap, hud>>

\* 'h' switching the hud off whatever it was: update_setting('hud', False)
update_setting_hud_off(k) ==
    /\ kpc[k] = "h"
    /\ hud' = FALSE
    /\ kpc' = Goto(k, "update")
    /\ UNCHANGED <<cmdFrame, alpha, colormap, cmapText>>

\* 'h': self.update_setting('hud', not self.settings.hud)
update_setting_hud(k) ==
    /\ kpc[k] = "h"
    /\ hud' = ~hud
    /\ kpc' = Goto(k, "update")
    /\ UNCHANGED <<cmdFrame, alpha, colormap, cmapText>>

Min(a, b) == IF a <= b THEN a ELSE b
Max(a, b) == IF a >= b THEN a ELSE b

\* 'f' with the ceiling left out: update_setting('alpha', alpha + 0.1)
update_setting_alpha_up_unclamped(k) ==
    /\ kpc[k] = "f"
    /\ alpha' = alpha + AlphaStep
    /\ kpc' = Goto(k, "update")
    /\ UNCHANGED <<cmdFrame, colormap, cmapText, hud>>

\* 'f': self.update_setting('alpha', min(3.0, self.settings.alpha + 0.1))
update_setting_alpha_up(k) ==
    /\ kpc[k] = "f"
    /\ alpha' = Min(AlphaMax, alpha + AlphaStep)
    /\ kpc' = Goto(k, "update")
    /\ UNCHANGED <<cmdFrame, colormap, cmapText, hud>>

\* 'v': self.update_setting('alpha', max(0.1, self.settings.alpha - 0.1))
update_setting_alpha_down(k) ==
    /\ kpc[k] = "v"
    /\ alpha' = Max(AlphaMin, alpha - AlphaStep)
    /\ kpc' = Goto(k, "update")
    /\ UNCHANGED <<cmdFrame, colormap, cmapText, hud>>

\* handle_command(c) for c in 'm', 'h', 'f', 'v': the handler, then
\* update_elapsed_time()
handle_command_keys(k) ==
    \/ cycle_colormap_index(k)
    \/ cycle_colormap_text(k)
    \/ update_setting_hud(k)
    \/ update_setting_alpha_up(k)
    \/ update_setting_alpha_down(k)

\* ThermalCamera.close: self.cap.release(); if self.settings.recording:
\* self.videoOut.release()
close ==
    /\ released' = TRUE
    /\ sinks' = IF recording /\ videoOut # NoSink THEN Release(sinks, videoOut) ELSE sinks

\* ------------------------------------------------------ start/stop_web_server
\* state.web_server = uvicorn.Server(config); state.web_thread = Thread(run);
\* state.web_thread.start(): returns as soon as the thread is started
start_web_server ==
    /\ nsessions' = nsessions + 1
    /\ web_server' = nsessions + 1
    /\ srv' = [srv EXCEPT ![nsessions + 1] = "started"]

\* if state.web_server: state.web_server.should_exit = True
stop_web_server_flag ==
    should_exit' = IF web_server # None
                   THEN [should_exit EXCEPT ![web_server] = TRUE]
                   ELSE should_exit

\* ------------------------------------------------------------------- main
\* while state.running: if state.mode == "local": run_local_mode(...), up to
\* the local loop: frame_width, frame_height = state.camera.settings.new_dimensions
main_run_local_mode ==
    /\ mpc = "main"
    /\ running /\ mode = "local"
    /\ mpc' = IF camera = "none" THEN "crashed" ELSE "local_loop"
    /\ IF camera = "none"
          THEN UNCHANGED <<ignore_quit_until, startup_until>>
          ELSE /\ ignore_quit_until' = now + GracePeriod
               /\ startup_until' = IF startup_until = NoTime THEN now + GracePeriod
                                                             ELSE startup_until
    /\ UNCHANGED <<sharedVars, camera, frame_queue, srv, serving, nsessions, cpc, frame,
                   gpc, nframes, recVars, released, log,
                   setVars, streak, quit_ignored, startVars, decodeVars>>

\* elif state.mode == "remote": run_remote_mode(...), up to the remote loop:
\* start_web_server(state)
main_run_remote_mode ==
    /\ mpc = "main"
    /\ running /\ mode = "remote"
    /\ nsessions < MaxSessions
    /\ start_web_server
    /\ mpc' = "remote_loop"
    /\ UNCHANGED <<serving, mode, running, switch_requested, should_exit, camera,
                   frame_queue, cpc, frame, gpc, nframes, recVars, released, log,
                   setVars, streak, quitVars, startVars, decodeVars>>

\* the main loop ends; state.running = False; stop_web_server(state)
main_cleanup ==
    /\ mpc = "main"
    /\ ~running
    /\ running' = FALSE
    /\ stop_web_server_flag
    /\ mpc' = IF web_server # None THEN "cleanup_stop_sleep" ELSE "close"
    /\ UNCHANGED <<mode, switch_requested, web_server, camera, frame_queue, srv, serving,
                   nsessions, cpc, frame, gpc, nframes, recVars, released, log,
                   setVars, streak, quitVars, startVars, decodeVars>>

\* stop_web_server after its sleep(0.5): state.web_server = None;
\* state.web_thread = None (the thread is not joined)
stop_web_server_return ==
    /\ mpc \in {"remote_stop_sleep", "cleanup_stop_sleep"}
    /\ web_server' = None
    /\ mpc' = IF mpc = "remote_stop_sleep" THEN "main" ELSE "close"
    /\ UNCHANGED <<mode, running, switch_requested, should_exit, camera,
                   frame_queue, srv, serving, nsessions, cpc, frame, gpc, nframes, recVars,
                   released, log,
                   setVars, streak, quitVars, startVars, decodeVars>>

\* if state.camera: state.camera.close()
main_close ==
    /\ mpc = "close"
    /\ IF camera # "none" THEN close ELSE UNCHANGED <<released, sinks>>
    /\ mpc' = "quit"
    /\ UNCHANGED <<sharedVars, camera, frame_queue, srv, serving, nsessions, cpc, frame,
                   gpc, nframes, camVars, now, kpc, exc, recorded, log,
                   setVars, streak, quitVars, startVars, decodeVars>>

\* pygame.quit(); print("Done"): main returns and the process ends
main_quit ==
    /\ mpc = "quit"
    /\ mpc' = "done"
    /\ UNCHANGED <<sharedVars, camera, frame_queue, srv, serving, nsessions, cpc, frame,
                   gpc, nframes, recVars, released, log,
                   setVars, streak, quitVars, startVars, decodeVars>>

\* ---------------------------------------------------------- run_local_mode
\* while state.running and state.mode == "local":
\*     if state.switch_requested == "remote": ... break
run_local_mode_while ==
    /\ mpc = "local_loop"
    /\ IF ~(running /\ mode = "local")
       THEN /\ mpc' = "main"
            /\ UNCHANGED <<mode, switch_requested>>
       ELSE IF switch_requested = "remote"
       THEN /\ switch_requested' = "none"
            /\ mode' = "remote"
            /\ mpc' = "main"
       ELSE /\ mpc' = "local_events"
            /\ UNCHANGED <<mode, switch_requested>>
    /\ UNCHANGED <<running, web_server, should_exit, camera, frame_queue, srv, serving,
                   nsessions, cpc, frame, gpc, nframes, recVars, released, log,
                   setVars, streak, quitVars, startVars, decodeVars>>

\* The batches pygame.event.get() can return to the local loop: QUIT (ignored
\* while time.time() < ignore_quit_until), the ESC/q key, a click on the Remote
\* button.
LocalEvents == {"QUIT", "K_ESCAPE", "remote"}

\* for event in pygame.event.get(): ...; then
\* button.active = state.camera.settings.recording (fails on a None camera)
run_local_mode_events ==
    /\ mpc = "local_events"
    /\ kpc["ui"] = "idle"
    /\ \E batch \in SUBSET LocalEvents :
          /\ "remote" \in batch => nsessions < MaxSessions
          /\ running' = IF ("QUIT" \in batch /\ now >= ignore_quit_until)
                           \/ "K_ESCAPE" \in batch
                        THEN FALSE ELSE running
          /\ quit_ignored' = ("QUIT" \in batch /\ now < ignore_quit_until)
          /\ mode' = IF "remote" \in batch THEN "remote" ELSE mode
    /\ mpc' = IF camera = "none" THEN "crashed" ELSE "local_get"
    /\ UNCHANGED <<switch_requested, web_server, should_exit, camera,
                   frame_queue, srv, serving, nsessions, cpc, frame, gpc, nframes, recVars,
                   released, log,
                   setVars, streak, ignore_quit_until, startup_until, startVars,
                   decodeVars>>

\* for event in pygame.event.get(): a K_r key or a click on the record button:
\* state.camera.handle_command('r') (fails on a None camera)
run_local_mode_key_r ==
    /\ mpc = "local_events"
    /\ kpc["ui"] = "idle"
    /\ recording \/ Len(sinks) < MaxRecordings
    /\ IF camera = "none"
          THEN mpc' = "crashed" /\ UNCHANGED kpc
          ELSE kpc' = Goto("ui", "toggle") /\ UNCHANGED mpc
    /\ streak' = NoStreak
    /\ UNCHANGED <<sharedVars, camera, frame_queue, srv, serving, nsessions, cpc, frame,
                   gpc, nframes, released, camVars, sinks, now, exc, recorded, log,
                   setVars, quitVars, startVars, decodeVars>>

SettingsKeys == {"m", "h", "f", "v"}

\* the run of equal consecutive settings commands after one more c: its command,
\* its length (modulo the command's period: len(COLORMAPS) for 'm', two for a
\* flag or a clamped step) and the settings it started from
Period(c) == IF c = "m" THEN Len(COLORMAPS) ELSE Cardinality(BOOLEAN)

Extend(st, c) ==
    IF st # NoStreak /\ st.cmd = c
       THEN [st EXCEPT !.n = (@ + 1) % Period(c)]
       ELSE [cmd |-> c, n |-> 1, from |-> Settings]

\* for event in pygame.event.get(): K_m / K_h / K_f / K_v or the button of the
\* same command: state.camera.handle_command(c)
run_local_mode_key(c) ==
    /\ mpc = "local_events"
    /\ kpc["ui"] = "idle"
    /\ IF camera = "none"
          THEN mpc' = "crashed" /\ UNCHANGED <<kpc, streak>>
          ELSE kpc' = Goto("ui", c) /\ streak' = Extend(streak, c) /\ UNCHANGED mpc
    /\ UNCHANGED <<sharedVars, camera, frame_queue, srv, serving, nsessions, cpc,
                   frame, gpc, nframes, released, camVars, sinks, now, exc, recorded,
                   log, setVars, quitVars, startVars, decodeVars>>

\* frame = state.frame_queue.get(timeout=0.1) returns a frame, which is drawn
run_local_mode_get ==
    /\ mpc = "local_get"
    /\ queue_get
    /\ mpc' = "local_loop"
    /\ quit_ignored' = FALSE
    /\ UNCHANGED <<sharedVars, camera, srv, serving, nsessions, cpc, frame, gpc, nframes,
                   recVars, released,
                   setVars, streak, ignore_quit_until, startup_until, startVars,
                   decodeVars>>

\* except queue.Empty: clock.tick(TARGET_FPS); continue
run_local_mode_get_empty ==
    /\ mpc = "local_get"
    /\ QEmpty(frame_queue)
    /\ mpc' = "local_loop"
    /\ quit_ignored' = FALSE
    /\ UNCHANGED <<sharedVars, camera, frame_queue, srv, serving, nsessions, cpc, frame,
                   gpc, nframes, recVars, released, log,
                   setVars, streak, ignore_quit_until, startup_until, startVars,
                   decodeVars>>

\* --------------------------------------------------------- run_remote_mode
\* faulty variant: the remote loop does not poll state.switch_requested
run_remote_mode_while_nopoll ==
    /\ mpc = "remote_loop"
    /\ mpc' = IF ~(running /\ mode = "remote") THEN "remote_stop"
                                               ELSE "remote_events"
    /\ UNCHANGED <<sharedVars, camera, frame_queue, srv, serving, nsessions, cpc,
                   frame, gpc, nframes, recVars, released, log,
                   setVars, streak, quitVars, startVars, decodeVars>>

\* while state.running and state.mode == "remote":
\*     if state.switch_requested == "local": ... break
run_remote_mode_while ==
    /\ mpc = "remote_loop"
    /\ IF ~(running /\ mode = "remote")
       THEN /\ mpc' = "remote_stop"
            /\ UNCHANGED <<mode, switch_requested>>
       ELSE IF switch_requested = "local"
       THEN /\ switch_requested' = "none"
            /\ mode' = "local"
            /\ mpc' = "remote_stop"
       ELSE /\ mpc' = "remote_events"
            /\ UNCHANGED <<mode, switch_requested>>
    /\ UNCHANGED <<running, web_server, should_exit, camera, frame_queue, srv, serving,
                   nsessions, cpc, frame, gpc, nframes, recVars, released, log,
                   setVars, streak, quitVars, startVars, decodeVars>>

\* The batches pygame.event.get() can return to the remote loop: QUIT, and a
\* click on the Local button or the ESC key.
RemoteEvents == {"QUIT", "local"}

\* for event in pygame.event.get(): ...; draw the idle screen; clock.tick(10)
run_remote_mode_events ==
    /\ mpc = "remote_events"
    /\ \E batch \in SUBSET RemoteEvents :
          /\ running' = IF "QUIT" \in batch THEN FALSE ELSE running
          /\ mode' = IF "local" \in batch THEN "local" ELSE mode
    /\ mpc' = "remote_loop"
    /\ UNCHANGED <<switch_requested, web_server, should_exit, camera,
                   frame_queue, srv, serving, nsessions, cpc, frame, gpc, nframes, recVars,
                   released, log,
                   setVars, streak, quitVars, startVars, decodeVars>>

\* stop_web_server(state) when leaving the remote loop
run_remote_mode_stop ==
    /\ mpc = "remote_stop"
    /\ stop_web_server_flag
    /\ mpc' = IF web_server # None THEN "remote_stop_sleep" ELSE "main"
    /\ UNCHANGED <<mode, running, switch_requested, web_server, camera,
                   frame_queue, srv, serving, nsessions, cpc, frame, gpc, nframes, recVars,
                   released, log,
                   setVars, streak, quitVars, startVars, decodeVars>>

main ==
    \/ main_run_local_mode
    \/ main_run_remote_mode
    \/ main_cleanup
    \/ stop_web_server_return
    \/ main_close
    \/ main_quit
    \/ run_local_mode_while
    \/ run_local_mode_events
    \/ run_local_mode_get
    \/ run_local_mode_get_empty
    \/ run_remote_mode_while
    \/ run_remote_mode_events
    \/ run_remote_mode_stop

\* ------------------------------------------------ the uvicorn server thread
Listening == {s \in Sessions : srv[s] = "listening"}

\* def run(): state.web_server.run() -- the thread reads state.web_server when
\* it runs, then binds WEB_PORT: on None the call raises, on a port still
\* bound by another server the bind fails; either way the thread ends.
web_thread_run(s) ==
    /\ ProcessAlive
    /\ srv[s] = "started"
    /\ IF web_server = None
       THEN /\ srv' = [srv EXCEPT ![s] = "failed"]
            /\ UNCHANGED serving
       ELSE /\ serving' = [serving EXCEPT ![s] = web_server]
            /\ srv' = [srv EXCEPT ![s] = IF Listening = {} THEN "listening"
                                                          ELSE "failed"]
    /\ UNCHANGED <<sharedVars, camera, frame_queue, nsessions, mpc, cpc, frame,
                   gpc, nframes, recVars, released, log,
                   setVars, streak, quitVars, startVars, decodeVars>>

\* Server.run() sees should_exit, closes its socket and returns
web_thread_exit(s) ==
    /\ ProcessAlive
    /\ srv[s] = "listening"
    /\ should_exit[serving[s]]
    /\ srv' = [srv EXCEPT ![s] = "stopped"]
    /\ UNCHANGED <<sharedVars, camera, frame_queue, serving, nsessions, mpc, cpc,
                   frame, gpc, nframes, recVars, released, log,
                   setVars, streak, quitVars, startVars, decodeVars>>

\* --------------------------------------------------- create_web_app routes
\* @app.get("/switch/local"): state.switch_requested = "local"
switch_to_local ==
    /\ ProcessAlive
    /\ Listening # {}
    /\ switch_requested' = "local"
    /\ UNCHANGED <<mode, running, web_server, should_exit, camera, frame_queue,
                   srv, serving, nsessions, mpc, cpc, frame, gpc, nframes, recVars,
                   released, log,
                   setVars, streak, quitVars, startVars, decodeVars>>

\* @app.get("/video_feed"): StreamingResponse(gen_frames(), ...)
video_feed(g) ==
    /\ ProcessAlive
    /\ Listening # {}
    /\ gpc[g] = "idle"
    /\ gpc' = [gpc EXCEPT ![g] = "while"]
    /\ UNCHANGED <<sharedVars, camera, frame_queue, srv, serving, nsessions, mpc,
                   cpc, frame, nframes, recVars, released, log,
                   setVars, streak, quitVars, startVars, decodeVars>>

\* faulty variant: the generator's loop does not test state.running
gen_frames_while_mode_only(g) ==
    /\ ProcessAlive
    /\ gpc[g] = "while"
    /\ gpc' = [gpc EXCEPT ![g] = IF mode = "remote" THEN "get" ELSE "idle"]
    /\ UNCHANGED <<sharedVars, camera, frame_queue, srv, serving, nsessions, mpc,
                   cpc, frame, nframes, recVars, released, log,
                   setVars, streak, quitVars, startVars, decodeVars>>

\* gen_frames: while state.mode == "remote" and state.running:
gen_frames_while(g) ==
    /\ ProcessAlive
    /\ gpc[g] = "while"
    /\ gpc' = [gpc EXCEPT ![g] = IF mode = "remote" /\ running THEN "get"
                                                               ELSE "idle"]
    /\ UNCHANGED <<sharedVars, camera, frame_queue, srv, serving, nsessions, mpc,
                   cpc, frame, nframes, recVars, released, log,
                   setVars, streak, quitVars, startVars, decodeVars>>

\* gen_frames: frame = state.frame_queue.get(timeout=1.0) returns a frame
gen_frames_get(g) ==
    /\ ProcessAlive
    /\ gpc[g] = "get"
    /\ queue_get
    /\ gpc' = [gpc EXCEPT ![g] = "yield"]
    /\ UNCHANGED <<sharedVars, camera, srv, serving, nsessions, mpc, cpc, frame,
                   nframes, recVars, released,
                   setVars, streak, quitVars, startVars, decodeVars>>

\* gen_frames: except queue.Empty: continue
gen_frames_get_empty(g) ==
    /\ ProcessAlive
    /\ gpc[g] = "get"
    /\ QEmpty(frame_queue)
    /\ gpc' = [gpc EXCEPT ![g] = "while"]
    /\ UNCHANGED <<sharedVars, camera, frame_queue, srv, serving, nsessions, mpc,
                   cpc, frame, nframes, recVars, released, log,
                   setVars, streak, quitVars, startVars, decodeVars>>

\* gen_frames: cv2.imencode; yield: the part is sent and the loop goes on, or
\* the response is over (client gone) and the generator is closed at the yield
gen_frames_yield(g) ==
    /\ ProcessAlive
    /\ gpc[g] = "yield"
    /\ \E closed \in BOOLEAN :
          gpc' = [gpc EXCEPT ![g] = IF closed THEN "idle" ELSE "while"]
    /\ UNCHANGED <<sharedVars, camera, frame_queue, srv, serving, nsessions, mpc,
                   cpc, frame, nframes, recVars, released, log,
                   setVars, streak, quitVars, startVars, decodeVars>>

\* @app.get("/command/{cmd}") with cmd = 'r': state.camera.handle_command(cmd)
\* (on a None camera the route only returns an error)
execute_command ==
    /\ ProcessAlive
    /\ Listening # {}
    /\ camera # "none"
    /\ kpc["http"] = "idle"
    /\ recording \/ Len(sinks) < MaxRecordings
    /\ kpc' = Goto("http", "toggle")
    /\ UNCHANGED <<sharedVars, camera, frame_queue, srv, serving, nsessions, mpc, cpc,
                   frame, gpc, nframes, released, camVars, sinks, now, exc, recorded,
                   log,
                   setVars, streak, quitVars, startVars, decodeVars>>

\* @app.get("/health"): the JSON the route returns in the current state
health ==
    [status |-> IF camera # "none" THEN "healthy" ELSE "degraded", mode |-> mode]

\* one gen_frames generator between two of its steps
gen_frames(g) ==
    \/ gen_frames_while(g)
    \/ gen_frames_get(g)
    \/ gen_frames_get_empty(g)
    \/ gen_frames_yield(g)

web ==
    \/ \E s \in Sessions : web_thread_run(s) \/ web_thread_exit(s)
    \/ switch_to_local
    \/ \E g \in Gens :
          \/ video_feed(g)
          \/ gen_frames_while(g)
          \/ gen_frames_get(g)
          \/ gen_frames_get_empty(g)
          \/ gen_frames_yield(g)

\* ---------------------------------------------------------- specification
Next == main \/ camera_capture_loop_not_recording \/ web

Spec == Init /\ [][Next]_vars

\* The frame channel on its own: the capture thread against consumers that may
\* call get at any moment, whatever their number and their position (this
\* covers every interleaving the local loop and the generators can produce).
frame_consumer ==
    /\ queue_get
    /\ UNCHANGED <<sharedVars, camera, srv, serving, nsessions, mpc, cpc, frame,
                   gpc, nframes, recVars, released,
                   setVars, streak, quitVars, startVars, decodeVars>>

NextChan == camera_capture_loop_not_recording \/ frame_consumer

SpecChan == Init /\ [][NextChan]_vars

\* The mode controller under fair scheduling of the main thread: the main
\* thread, the server threads, the /switch/local route and the capture
\* thread's handling of a lost camera. Frames are left out: no action here
\* reads the frame channel (a get that returns a frame and one that times out
\* lead the local loop to the same place).
NextSwitch ==
    \/ main_run_local_mode
    \/ main_run_remote_mode
    \/ main_cleanup
    \/ stop_web_server_return
    \/ main_close
    \/ main_quit
    \/ run_local_mode_while
    \/ run_local_mode_events
    \/ run_local_mode_get_empty
    \/ run_remote_mode_while
    \/ run_remote_mode_events
    \/ run_remote_mode_stop
    \/ camera_capture_loop_while
    \/ camera_capture_loop_read_none
    \/ camera_capture_loop_reinit
    \/ \E s \in Sessions : web_thread_run(s) \/ web_thread_exit(s)
    \/ switch_to_local

SpecSwitch ==
    Init /\ [][NextSwitch]_vars /\ WF_vars(main)

\* the loops of run_local_mode and run_remote_mode
run_local_mode ==
    \/ run_local_mode_while
    \/ run_local_mode_events
    \/ run_local_mode_key_r
    \/ run_local_mode_get
    \/ run_local_mode_get_empty

run_remote_mode ==
    \/ run_remote_mode_while
    \/ run_remote_mode_events

\* Shutdown and camera loss under fair scheduling of the threads: the main
\* thread, the capture thread on a device that delivers no usable frame (reads
\* fail or a stage of process_frame raises) and the streaming generators, which
\* therefore wait on an empty channel. The server threads are left out: a
\* generator may be started at any moment, whichever server accepted its
\* request. Each loop is scheduled fairly while it runs; main is not required
\* to go on once it has left a mode loop, so no thread is ended merely by the
\* process ending.
gen_frames_start(g) ==
    /\ ProcessAlive
    /\ gpc[g] = "idle"
    /\ gpc' = [gpc EXCEPT ![g] = "while"]
    /\ UNCHANGED <<sharedVars, camera, frame_queue, srv, serving, nsessions, mpc,
                   cpc, frame, nframes, recVars, released, log,
                   setVars, streak, quitVars, startVars, decodeVars>>

NextShutdown ==
    \/ main_run_local_mode
    \/ main_run_remote_mode
    \/ main_cleanup
    \/ stop_web_server_return
    \/ main_close
    \/ main_quit
    \/ run_local_mode_while
    \/ run_local_mode_events
    \/ run_local_mode_get_empty
    \/ run_remote_mode_while
    \/ run_remote_mode_events
    \/ run_remote_mode_stop
    \/ camera_capture_loop_while
    \/ camera_capture_loop_read_none
    \/ camera_capture_loop_process_raise
    \/ camera_capture_loop_reinit
    \/ camera_capture_loop_except
    \/ \E g \in Gens :
          \/ gen_frames_start(g)
          \/ gen_frames_while(g)
          \/ gen_frames_get_empty(g)

SpecShutdown ==
    /\ Init /\ [][NextShutdown]_vars
    /\ WF_vars(run_local_mode \/ run_remote_mode)
    /\ WF_vars(camera_capture_loop)
    /\ \A g \in Gens : WF_vars(gen_frames(g))

\* A Local session with recording: the main thread in run_local_mode up to
\* shutdown, issuing record commands, and the capture thread with every step of
\* its loop.
NextLocal ==
    \/ main_run_local_mode
    \/ run_local_mode
    \/ main_cleanup
    \/ main_close
    \/ main_quit
    \/ camera_capture_loop
    \/ handle_command("ui")

SpecLocal == Init /\ [][NextLocal]_vars

\* The recording commands on their own: the main thread in run_local_mode up
\* to shutdown, issuing record commands one after the other while the clock
\* advances; no other thread touches the camera.
NextCmd ==
    \/ main_run_local_mode
    \/ run_local_mode_while
    \/ run_local_mode_events
    \/ run_local_mode_key_r
    \/ run_local_mode_get_empty
    \/ main_cleanup
    \/ main_close
    \/ main_quit
    \/ handle_command_r("ui")
    \/ Tick

SpecCmd == Init /\ [][NextCmd]_vars

\* The capture thread under fair scheduling while record commands are issued
\* and nothing consumes the frames it publishes: every iteration finds the
\* slot occupied and evicts. The clock stands still.
NextCapture ==
    \/ main_run_local_mode
    \/ run_local_mode_while
    \/ run_local_mode_events
    \/ run_local_mode_key_r
    \/ run_local_mode_get_empty
    \/ main_cleanup
    \/ main_close
    \/ main_quit
    \/ handle_command("ui")
    \/ camera_capture_loop

SpecCapture ==
    Init /\ [][NextCapture]_vars /\ WF_vars(camera_capture_loop)

\* Startup followed by the mode controller of display_hybrid.py.
\* ---- the settings commands of a Local session, one after the other ----

NextColormap ==
    \/ main_run_local_mode
    \/ run_local_mode_while
    \/ run_local_mode_events
    \/ \E c \in SettingsKeys : run_local_mode_key(c)
    \/ run_local_mode_get_empty
    \/ main_cleanup
    \/ main_close
    \/ main_quit
    \/ handle_command_keys("ui")
    \/ update_elapsed_time("ui")

SpecColormap == Init /\ [][NextColormap]_vars

\* ---- the contrast commands from chosen contrast values ----

AlphaStarts == {AlphaMin + AlphaStep \div 2, 10 * AlphaStep, AlphaMax - AlphaStep \div 2}

InitContrast ==
    /\ InitProgram
    /\ alpha \in AlphaStarts
    /\ colormap = CameraSettings.colormap
    /\ cmapText = CameraSettings.cmapText
    /\ hud = CameraSettings.hud
    /\ InitThreads
    /\ InitDecode

NextContrast ==
    \/ main_run_local_mode
    \/ run_local_mode_while
    \/ run_local_mode_events
    \/ \E c \in {"f", "v"} : run_local_mode_key(c)
    \/ run_local_mode_get_empty
    \/ main_cleanup
    \/ main_close
    \/ main_quit
    \/ update_setting_alpha_up("ui")
    \/ update_setting_alpha_down("ui")
    \/ update_elapsed_time("ui")

SpecContrast == InitContrast /\ [][NextContrast]_vars

\* ---- the hud and record commands of a Local session, with the clock ----

NextHud ==
    \/ NextCmd
    \/ run_local_mode_key("h")
    \/ update_setting_hud("ui")

SpecHud == Init /\ [][NextHud]_vars

\* ---- a Local session with record commands, the clock and the capture thread
\* ---- on a device that delivers every frame

NextView ==
    \/ NextCmd
    \/ camera_capture_loop_while
    \/ camera_capture_loop_read_ok
    \/ camera_capture_loop_elapsed
    \/ camera_capture_loop_elapsed_set
    \/ camera_capture_loop_rec_check
    \/ camera_capture_loop_write
    \/ camera_capture_loop_except
    \/ camera_capture_loop_qcheck
    \/ camera_capture_loop_evict
    \/ camera_capture_loop_put

SpecView == Init /\ [][NextView]_vars

NextStartup ==
    \/ init_camera_with_retry_attempt
    \/ init_camera_with_retry_sleep
    \/ main_startup
    \/ lifespan_startup
    \/ NextSwitch

SpecStartup == InitStartup /\ [][NextStartup]_vars

\* ---- the main thread through Local and Remote sessions, with the clock ----

NextQuit ==
    \/ main_run_local_mode
    \/ main_run_remote_mode
    \/ main_cleanup
    \/ stop_web_server_return
    \/ main_close
    \/ main_quit
    \/ run_local_mode_while
    \/ run_local_mode_events
    \/ run_local_mode_get_empty
    \/ run_remote_mode_while
    \/ run_remote_mode_events
    \/ run_remote_mode_stop
    \/ Tick

SpecQuit == Init /\ [][NextQuit]_vars

\* ---- display_pygame.py: the standalone pygame program (one thread) ----

\* after main has initialised the camera and pygame, before the display loop
InitPygame ==
    /\ InitProgram /\ InitSettings /\ InitDecode
    /\ entry = "display_pygame"
    /\ camera = "ok"
    /\ attempt = 1
    /\ delays = 0
    /\ exit_status = NoStatus
    /\ mpc = "pg_loop"
    /\ cpc = "unstarted"

\* what no step of the display loop touches
pygameFrame == <<mode, switch_requested, web_server, should_exit, frame_queue, srv,
                 serving, nsessions, cpc, gpc, now, exc, log, quitVars, startVars,
                 decodeVars>>

\* while running:
pygame_main_while ==
    /\ mpc = "pg_loop"
    /\ mpc' = IF running THEN "pg_events" ELSE "pg_cleanup"
    /\ UNCHANGED <<pygameFrame, running, camera, frame, nframes, released, camVars,
                   sinks, kpc, recorded, setVars, streak>>

\* for event in pygame.event.get(): QUIT, K_ESCAPE / K_q set running = False
pygame_main_events ==
    /\ mpc = "pg_events"
    /\ kpc["ui"] = "idle"
    /\ \E batch \in SUBSET {"QUIT", "K_ESCAPE"} :
          running' = IF batch = {} THEN running ELSE FALSE
    /\ mpc' = "pg_frame"
    /\ UNCHANGED <<pygameFrame, camera, frame, nframes, released, camVars, sinks, kpc,
                   recorded, setVars, streak>>

\* K_r or the Record button: camera.handle_command('r')
pygame_main_key_r ==
    /\ mpc = "pg_events"
    /\ kpc["ui"] = "idle"
    /\ recording \/ Len(sinks) < MaxRecordings
    /\ kpc' = Goto("ui", "toggle")
    /\ UNCHANGED <<pygameFrame, running, camera, mpc, frame, nframes, released, camVars,
                   sinks, recorded, setVars, streak>>

\* frame = camera.process_frame() returns a frame
pygame_main_frame ==
    /\ mpc = "pg_frame"
    /\ nframes < MaxFrames
    /\ nframes' = nframes + 1
    /\ frame' = nframes + 1
    /\ recorded' = "no"
    /\ cmapText' = COLORMAPS[colormap + 1]
    /\ mpc' = "pg_elapsed"
    /\ UNCHANGED <<pygameFrame, running, camera, released, camVars, sinks, kpc, alpha,
                   colormap, hud, streak>>

\* frame is None: time.sleep(2), then the re-initialisation
pygame_main_frame_none ==
    /\ mpc = "pg_frame"
    /\ mpc' = "pg_reinit"
    /\ UNCHANGED <<pygameFrame, running, camera, frame, nframes, released, camVars,
                   sinks, kpc, recorded, setVars, streak>>

\* camera = init_camera_with_retry(max_retries=3); if camera is None: break;
\* continue
pygame_main_reinit ==
    /\ mpc = "pg_reinit"
    /\ \E ok \in BOOLEAN :
          /\ camera' = IF ok THEN "ok" ELSE "none"
          /\ mpc' = IF ok THEN "pg_loop" ELSE "pg_cleanup"
    /\ recording' = FALSE
    /\ videoOut' = NoSink
    /\ start_time' = NoTime
    /\ elapsed' = 0
    /\ alpha' = CameraSettings.alpha
    /\ colormap' = CameraSettings.colormap
    /\ cmapText' = CameraSettings.cmapText
    /\ hud' = CameraSettings.hud
    /\ UNCHANGED <<pygameFrame, running, frame, nframes, released, sinks, kpc, recorded,
                   streak>>

\* camera.update_elapsed_time()
pygame_main_elapsed ==
    /\ mpc = "pg_elapsed"
    /\ elapsed' = IF recording THEN FormatElapsed(now - start_time) ELSE elapsed
    /\ mpc' = "pg_write"
    /\ UNCHANGED <<pygameFrame, running, camera, frame, nframes, released, recording,
                   videoOut, start_time, sinks, kpc, recorded, setVars, streak>>

\* if camera.settings.recording: camera.videoOut.write(frame); the frame is
\* drawn; clock.tick
pygame_main_write ==
    /\ mpc = "pg_write"
    /\ recorded' = IF recording THEN "yes" ELSE recorded
    /\ mpc' = "pg_loop"
    /\ UNCHANGED <<pygameFrame, running, camera, frame, nframes, released, camVars,
                   sinks, kpc, setVars, streak>>

\* Cleanup: camera.close(), which raises AttributeError on None
pygame_main_close ==
    /\ mpc = "pg_cleanup"
    /\ IF camera = "none"
          THEN mpc' = "crashed" /\ UNCHANGED <<released, sinks>>
          ELSE mpc' = "pg_quit" /\ close
    /\ UNCHANGED <<pygameFrame, running, camera, frame, nframes, camVars, kpc, recorded,
                   setVars, streak>>

\* pygame.quit(); main returns
pygame_main_quit ==
    /\ mpc = "pg_quit"
    /\ mpc' = "done"
    /\ UNCHANGED <<pygameFrame, running, camera, frame, nframes, released, camVars,
                   sinks, kpc, recorded, setVars, streak>>

NextPygame ==
    \/ pygame_main_while
    \/ pygame_main_events
    \/ pygame_main_key_r
    \/ handle_command_r("ui")
    \/ pygame_main_frame
    \/ pygame_main_frame_none
    \/ pygame_main_reinit
    \/ pygame_main_elapsed
    \/ pygame_main_write
    \/ pygame_main_close
    \/ pygame_main_quit

SpecPygame == InitPygame /\ [][NextPygame]_vars

\* ---- utils.py: radiometry ----

Byte == 0 .. ByteBase - 1

\* the sample computed in the array's own type: uint8 arithmetic wraps
RawValue_uint8(p) == (p[1] + p[2] * ByteBase) % ByteBase

\* int(pixel[0]) + int(pixel[1]) * 256: int() takes each uint8 to an unbounded
\* integer, so the sum is formed without wrapping
RawValue(p) == p[1] + p[2] * ByteBase

\* round(x, 2) of x = v / 64 - 273.15, in hundredths: x is the double nearest
\* above the exact quotient (the double 273.15 lies below 273.15), so a value
\* halfway between two hundredths goes to the upper one
Round2(v) == (v * 100 - ZeroCelsius * CountsPerKelvin + CountsPerKelvin \div 2) \div CountsPerKelvin

calculate_temperature(p) == Round2(RawValue(p))

\* thdata[..., 1]: the plane of high bytes, flattened row by row as numpy's
\* argmax / argmin see it
HighBytes(th) ==
    [i \in 0 .. PlaneHeight * PlaneWidth - 1 |->
        th[(i \div PlaneWidth) + 1][(i % PlaneWidth) + 1][2]]

\* np.argmax / np.argmin: the first flat index holding the extreme value
argmax(plane) ==
    CHOOSE i \in DOMAIN plane :
        /\ \A j \in DOMAIN plane : plane[j] <= plane[i]
        /\ \A j \in DOMAIN plane : j < i => plane[j] < plane[i]

argmin(plane) ==
    CHOOSE i \in DOMAIN plane :
        /\ \A j \in DOMAIN plane : plane[j] >= plane[i]
        /\ \A j \in DOMAIN plane : j < i => plane[j] > plane[i]

\* pos = func(thdata[...,1]); col, row = divmod(pos, width);
\* temp = calculate_temperature(thdata[col][row]); return temp, (row, col)
find_extreme_temperature(th, func, width) ==
    LET pos == IF func = "argmax" THEN argmax(HighBytes(th)) ELSE argmin(HighBytes(th))
        col == pos \div width
        row == pos % width
    IN  [func |-> func, temp |-> calculate_temperature(th[col + 1][row + 1]),
         pos |-> <<row, col>>]

\* every sample of the sensor
InitTemp ==
    /\ InitProgram /\ InitSettings /\ InitThreads
    /\ thdata = <<>>
    /\ pixel \in Byte \X Byte
    /\ temp = NoTemp
    /\ extreme = <<>>

\* temp = calculate_temperature(thdata[96][128])
process_frame_temp ==
    /\ temp = NoTemp
    /\ temp' = calculate_temperature(pixel)
    /\ UNCHANGED <<sharedVars, camera, frame_queue, srv, serving, nsessions, mpc, cpc,
                   frame, gpc, nframes, released, recVars, log, setVars, streak,
                   quitVars, startVars, thdata, pixel, extreme>>

SpecTemp == InitTemp /\ [][process_frame_temp]_vars

\* bytes a plane is filled with: both ends of the range and a value between
ByteSamples == {0, 1, ByteBase - 1}

InitExtrema ==
    /\ InitProgram /\ InitSettings /\ InitThreads
    /\ thdata \in [1 .. PlaneHeight -> [1 .. PlaneWidth -> ByteSamples \X ByteSamples]]
    /\ pixel = <<0, 0>>
    /\ temp = NoTemp
    /\ extreme = <<>>

\* maxtemp, maxpos = find_extreme_temperature(thdata, np.argmax, self.settings.width)
\* mintemp, minpos = find_extreme_temperature(thdata, np.argmin, self.settings.width)
process_frame_extreme ==
    /\ Len(extreme) < Cardinality({"argmax", "argmin"})
    /\ extreme' = Append(extreme,
                     find_extreme_temperature(thdata,
                        IF extreme = <<>> THEN "argmax" ELSE "argmin", PlaneWidth))
    /\ UNCHANGED <<sharedVars, camera, frame_queue, srv, serving, nsessions, mpc, cpc,
                   frame, gpc, nframes, released, recVars, log, setVars, streak,
                   quitVars, startVars, thdata, pixel, temp>>

SpecExtrema == InitExtrema /\ [][process_frame_extreme]_vars

\* ================================================================ claims
InLocalLoop == mpc \in {"local_loop", "local_events", "local_get"}
InRemoteLoop == mpc \in {"remote_loop", "remote_events"}

\* C1: at most one sink consumes frames: gen_frames takes no frame out of the
\* queue while state.mode is "local", and run_local_mode takes none while
\* state.mode is "remote".
C1_OneSinkConsumes ==
    [][/\ \A g \in Gens : gen_frames_get(g) => mode # "local"
       /\ run_local_mode_get => mode # "remote"]_vars

\* C2: the server is stopped before state.mode reports "local": whenever
\* state.mode is "local", no server is accepting requests.
C2_StoppedBeforeLocal == mode = "local" => Listening = {}

\* C3: while the remote loop executes an iteration, the server started for
\* this session is listening.
C3_ListeningInRemoteLoop ==
    mpc = "remote_events" => web_server # None /\ srv[web_server] = "listening"

\* C4: while run_local_mode executes, no server thread is running (the thread
\* of every earlier Remote session has terminated and released the port).
C4_NoServerThreadInLocal ==
    InLocalLoop => \A s \in Sessions : srv[s] \notin {"started", "listening"}

\* C5: state.switch_requested is None whenever a mode loop is entered (every
\* request is consumed by the session it was issued in).
C5_NoPendingRequestOnEntry ==
    (mpc = "main" /\ running) => switch_requested = "none"

\* C6: a pending request to switch to local while the mode is remote is
\* eventually honoured, unless the process shuts down or dies: the mode becomes
\* "local" and stop_web_server is called (it has set should_exit and sleeps).
C6_SwitchHonoured ==
    (switch_requested = "local" /\ mode = "remote")
        ~> \/ ~running
           \/ mpc = "crashed"
           \/ mode = "local" /\ mpc = "remote_stop_sleep"

\* C6 witness: the route has set the request during a Remote session and the
\* remote loop is about to poll it.
C6_Witness ==
    /\ switch_requested = "local" /\ mode = "remote" /\ running
    /\ mpc = "remote_loop" /\ web_server # None /\ srv[web_server] = "listening"

\* C7: the channel keeps only the latest frame: when frame a and then frame b
\* are put with no get in between, a get that comes next returns b, and no
\* later get returns a.
C7_LatestFrameOnly ==
    \A i \in DOMAIN log :
        (i + 1 \in DOMAIN log /\ log[i] > 0 /\ log[i + 1] > 0) =>
            /\ (i + 2 \in DOMAIN log /\ log[i + 2] < 0) => log[i + 2] = 0 - log[i + 1]
            /\ \A k \in DOMAIN log : k > i + 1 => log[k] # 0 - log[i]

\* C7 witness: two puts in a row, then a get, which returned the second frame.
C7_Witness ==
    \E i \in DOMAIN log :
        /\ i + 2 \in DOMAIN log
        /\ log[i] > 0 /\ log[i + 1] > 0 /\ log[i + 2] = 0 - log[i + 1]

\* C8: the producer never blocks: whenever the capture thread is about to
\* execute put, the queue is not full.
C8_PutNeverBlocks == cpc = "put" => ~QFull(frame_queue)

\* C8 witness: the capture thread is about to put after it evicted a frame no
\* consumer had taken.
C8_Witness ==
    /\ cpc = "put" /\ QEmpty(frame_queue)
    /\ log # <<>> /\ log[Len(log)] > 0

\* C9: frames are observed in publication order: a later get never returns a
\* frame published before a frame an earlier get returned.
C9_PublicationOrder ==
    \A i, j \in DOMAIN log :
        (i < j /\ log[i] < 0 /\ log[j] < 0) => 0 - log[j] >= 0 - log[i]

\* C9 witness: two gets happened, the later one returning a later frame after
\* a frame in between was evicted.
C9_Witness ==
    \E i, j \in DOMAIN log :
        i < j /\ log[i] < 0 /\ log[j] < 0 /\ 0 - log[j] > 1 - log[i]

\* C10: when main has released the capture device (camera.close), the capture
\* thread has already terminated.
C10_CaptureJoinedBeforeClose == released => cpc = "exit"

\* C11: once state.running is False, the capture loop exits, the active mode
\* loop (run_local_mode or run_remote_mode) exits and every running gen_frames
\* generator exits, from every reachable state (a thread also ends when the
\* process does).
C11_ShutdownTerminates ==
    /\ ~running ~> (cpc = "exit" \/ ~ProcessAlive)
    /\ ~running ~> ~(InLocalLoop \/ InRemoteLoop)
    /\ \A g \in Gens :
          (~running /\ gpc[g] # "idle") ~> (gpc[g] = "idle" \/ ~ProcessAlive)

\* C11 witness: shutdown is requested while the capture thread re-initialises
\* the camera and a generator waits on the empty channel.
C11_Witness ==
    /\ ~running /\ ProcessAlive /\ InRemoteLoop
    /\ cpc = "reinit"
    /\ \E g \in Gens : gpc[g] = "get" /\ QEmpty(frame_queue)

\* C12: losing the camera is not fatal, re-acquisition is retried without end:
\* whenever state.camera is None (a round of re-initialisation has failed),
\* the capture loop eventually attempts another re-initialisation, unless the
\* process shuts down or ends.
C12_ReacquisitionRetried ==
    (camera = "none" /\ running /\ ProcessAlive)
        ~> (cpc = "reinit" \/ camera # "none" \/ ~running \/ ~ProcessAlive)

\* C13: the recording sink has no late writer: whenever the capture thread is
\* about to call videoOut.write(frame), the sink videoOut refers to has not
\* been finalized (release() has not been called on it).
C13_NoWriteAfterFinalize ==
    cpc = "write" => videoOut # NoSink /\ sinks[videoOut] = 0

\* C14: the recording lifecycle, commands issued one after the other: no sink
\* is finalized more than once, not by a later close() either; between two
\* commands, while recording is False the elapsed label is "00:00:00" and every
\* sink opened so far has been finalized exactly once (so two r commands from
\* recording False open one sink and finalize it once), and while recording is
\* True the sink opened last is the only one not finalized until close().
C14_RecordingLifecycle ==
    /\ \A i \in DOMAIN sinks : sinks[i] <= 1
    /\ kpc["ui"] = "idle" =>
          IF recording
             THEN /\ videoOut = Len(sinks)
                  /\ sinks[videoOut] = (IF released THEN 1 ELSE 0)
                  /\ \A i \in DOMAIN sinks : i # videoOut => sinks[i] = 1
             ELSE /\ elapsed = 0
                  /\ \A i \in DOMAIN sinks : sinks[i] = 1

\* C14 witness: r was issued twice from recording False with time passing
\* in between, and close() was called afterwards.
C14_Witness ==
    /\ kpc["ui"] = "idle" /\ ~recording /\ released
    /\ Len(sinks) = 1 /\ sinks[1] = 1
    /\ start_time # NoTime /\ start_time < now /\ elapsed = 0

\* the capture thread holds a frame it has read and not yet published
InIteration == cpc \in {"elapsed", "elapsed_set", "rec_check", "write", "qcheck", "evict", "put"}

\* C15: backpressure of the channel never makes the capture loop skip a frame:
\* in an iteration that obtained a frame, once the publish stage is entered the
\* frame has been handed to videoOut.write if recording was found set, put
\* never waits for room, and the iteration ends by publishing the frame,
\* whatever the queue holds and whatever the consumer does; a frame is dropped
\* only by an exception of its own iteration.
C15_NoFrameSkipped ==
    /\ [](cpc \in {"qcheck", "evict", "put"} => recorded # "due")
    /\ [](cpc = "put" => ~QFull(frame_queue))
    /\ [][(InIteration /\ cpc' = "loop") => log' = Published(log, frame)]_vars

\* C15 witness: recording is on, the slot is occupied by a frame no consumer
\* took, and the capture thread has written the next frame to the sink and is
\* about to publish it.
C15_Witness ==
    /\ recording /\ recorded = "yes" /\ cpc = "qcheck"
    /\ ~QEmpty(frame_queue) /\ log # <<>> /\ log[Len(log)] > 0

\* C16: when videoOut.write raises in the capture loop, the recording flag is
\* cleared: when the handler of that exception is done, settings.recording is
\* False.
C16_SinkErrorClearsFlag ==
    [][(cpc = "except" /\ exc = "write" /\ cpc' # cpc) => ~recording']_vars

\* C17: a failure in an overlay stage skips only that stage, the frame is
\* still returned by process_frame and published: the exception of an overlay
\* stage never reaches the handler of the capture loop, where the frame is
\* dropped.
C17_OverlayFailureKeepsFrame == ~(cpc = "except" /\ exc = "overlay")

\* C18: a failure local to one frame never halts the capture loop: after an
\* exception was caught, the loop goes on to a further process_frame call,
\* unless shutdown is requested or the process ends.
C18_LoopSurvivesFrameFailure ==
    cpc = "except" ~> (cpc = "process" \/ ~running \/ ~ProcessAlive)

\* C18 witness: the capture loop has caught the exception of a failed write
\* while the process is running.
C18_Witness ==
    cpc = "except" /\ exc = "write" /\ running /\ ProcessAlive

\* C19: a streaming server that fails to start does not leave the program in
\* Remote: when the server of the current Remote session has failed, the mode
\* eventually is "local" again, unless the process shuts down or ends.
C19_StartFailureForcesLocal ==
    (mode = "remote" /\ web_server # None /\ srv[web_server] = "failed")
        ~> (mode = "local" \/ ~running \/ ~ProcessAlive)

\* the capture device is unavailable: the last read failed and the camera has
\* not been re-acquired (re-initialisation is in progress or has failed)
DeviceUnavailable == camera = "none" \/ cpc = "reinit"

\* C20: /health reports "degraded" in every state in which the capture device
\* is unavailable (and so "healthy" only while a working camera is held).
C20_HealthReflectsDevice ==
    (Listening # {} /\ DeviceUnavailable) => health.status = "degraded"

\* C21: while Local is active and the capture device becomes unavailable, also
\* once state.camera is None, the local loop keeps running and does not fail:
\* no step taken inside the loop of run_local_mode ends the main thread with an
\* exception.
C21_LocalLoopSurvivesCameraLoss == [][InLocalLoop => mpc' # "crashed"]_vars

\* a server thread that was started and has not ended (it runs, and holds the
\* port once it listens)
AliveServers == {s \in Sessions : srv[s] \in {"started", "listening"}}

\* C30: at most one streaming server instance is alive at any time, whatever
\* the sequence of mode switches.
C30_AtMostOneServer == Cardinality(AliveServers) <= 1

\* all attempts of the startup call of init_camera_with_retry have failed
StartupFailed ==
    mpc \in {"init_done", "exited", "lifespan"} /\ camera = "none"

\* C22: startup acquisition is bounded and fatal only at the hard maximum:
\* init_camera_with_retry makes at most max_retries attempts, sleeps once
\* between two consecutive attempts and not after the last, and when all
\* attempts have failed the process exits with a non-zero status and neither
\* the capture thread nor a sink is started.
C22_StartupBounded ==
    /\ attempt <= max_retries
    /\ delays = IF mpc = "init" \/ attempt = 0 THEN attempt ELSE attempt - 1
    /\ StartupFailed =>
          /\ attempt = max_retries
          /\ cpc = "unstarted" /\ nsessions = 0
          /\ mpc # "init_done" => exit_status = ExitFailure

\* C23: the view settings are written by command handling only: no step of a
\* capture-loop iteration (process_frame, update_elapsed_time, the recording
\* write, the publication) changes a field of camera.settings.
CaptureStep == (cpc = "process" \/ InIteration) /\ cpc' # cpc

AfterRun(c) == kpc["ui"] = "idle" /\ streak # NoStreak /\ streak.cmd = c

\* C24: the contrast multiplier stays within [0.1, 3.0] whatever commands are
\* handled; 'f' commands from within one step of the ceiling (2.95) reach 3.0 and
\* stay there, 'v' commands from within one step of the floor (0.15) reach 0.1
\* and stay there.
C24_ContrastClamped ==
    /\ AlphaMin <= alpha /\ alpha <= AlphaMax
    /\ AfterRun("f") /\ streak.from.alpha >= AlphaMax - AlphaStep => alpha = AlphaMax
    /\ AfterRun("v") /\ streak.from.alpha <= AlphaMin + AlphaStep => alpha = AlphaMin

\* two or more 'f' commands from 2.95 have been handled
C24_Witness ==
    /\ AfterRun("f")
    /\ streak.n = 0
    /\ streak.from.alpha = AlphaMax - AlphaStep \div 2
    /\ alpha = AlphaMax

\* C25: 'm' advances the colormap index by one modulo len(COLORMAPS) and sets
\* the display name: after any sequence of commands the index is in range and
\* the name is the indexed entry's, and len(COLORMAPS) consecutive 'm' commands
\* restore index and name.
C25_ColormapCycles ==
    /\ colormap \in 0 .. Len(COLORMAPS) - 1
    /\ kpc["ui"] = "idle" => cmapText = COLORMAPS[colormap + 1]
    /\ AfterRun("m") =>
          /\ colormap = (streak.from.colormap + streak.n) % Len(COLORMAPS)
          /\ streak.n = 0 => /\ colormap = streak.from.colormap
                             /\ cmapText = streak.from.cmapText

\* len(COLORMAPS) consecutive 'm' commands from a colormap other than the first
C25_Witness ==
    /\ AfterRun("m")
    /\ streak.n = 0
    /\ colormap # CameraSettings.colormap
    /\ colormap = streak.from.colormap

\* draw_hud: the settings shown in the hud box
draw_hud(s) == <<s.cmapText, s.alpha, s.elapsed, s.recording>>

\* draw_overlay: what the overlay of one frame takes from the settings
draw_overlay(s) == IF s.hud THEN draw_hud(s) ELSE <<>>

\* a run of an even number of 'h' commands has been handled
AfterHudPair == AfterRun("h") /\ streak.n = 0

\* C26: two consecutive 'h' commands restore the hud flag and leave every other
\* settings field unchanged, so the overlay is rendered as before them.
C26_HudPairIsIdentity ==
    AfterHudPair =>
       /\ Settings = streak.from
       /\ draw_overlay(Settings) = draw_overlay(streak.from)

\* C26 as the code has it: two consecutive 'h' commands restore the hud flag and
\* leave every field but the elapsed label unchanged; while recording, each
\* command refreshes the elapsed label with the time since the recording
\* started, and the overlay is as before with the hud off or the label unchanged.
C26_HudPairKeepsAllButElapsed ==
    AfterHudPair =>
       /\ [Settings EXCEPT !.elapsed = 0] = [streak.from EXCEPT !.elapsed = 0]
       /\ recording => \E t \in start_time .. now : elapsed = FormatElapsed(t - start_time)
       /\ ~recording => Settings = streak.from
       /\ ~hud \/ elapsed = streak.from.elapsed =>
             draw_overlay(Settings) = draw_overlay(streak.from)

\* two 'h' commands while recording, the clock having advanced in between
C26_Witness ==
    /\ AfterHudPair
    /\ recording
    /\ hud
    /\ elapsed # streak.from.elapsed

\* the 16-bit samples of the plane, and the sample at a returned (column, row)
Samples == {RawValue(thdata[r][c]) : r \in 1 .. PlaneHeight, c \in 1 .. PlaneWidth}
SampleAt(pos) == RawValue(thdata[pos[2] + 1][pos[1] + 1])
Largest(S) == CHOOSE v \in S : \A w \in S : w <= v
Smallest(S) == CHOOSE v \in S : \A w \in S : w >= v

\* C27: find_extreme_temperature with the maximum comparator returns the
\* temperature of the largest 16-bit sample of the plane and the (column, row) of
\* a sample holding that value; with the minimum comparator, of the smallest.
C27_ExtremeIsExtremeSample ==
    \A i \in DOMAIN extreme :
        LET e == extreme[i]
            v == IF e.func = "argmax" THEN Largest(Samples) ELSE Smallest(Samples)
        IN  /\ e.temp = Round2(v)
            /\ SampleAt(e.pos) = v

\* C28: calculate_temperature forms the raw value as exactly low + high * 256, a
\* number of 0..65535 that never wraps, and returns value / 64 - 273.15 rounded
\* to two decimals: the hundredth nearest to it.
C28_TemperatureOfSample ==
    temp # NoTemp =>
       LET value == pixel[1] + ByteBase * pixel[2]
           exact == value * 100 - ZeroCelsius * CountsPerKelvin
       IN  /\ value \in 0 .. ByteBase * ByteBase - 1
           /\ 2 * (temp * CountsPerKelvin - exact) <= CountsPerKelvin
           /\ 2 * (exact - temp * CountsPerKelvin) <= CountsPerKelvin

\* the temperature of the largest sample, <<255, 255>>, has been computed
C28_Witness ==
    /\ temp # NoTemp
    /\ pixel = <<ByteBase - 1, ByteBase - 1>>
    /\ temp > 0

\* C29: a window-close request is suppressed only during the one fixed grace
\* period after startup: whenever the local loop ignores a QUIT event, the clock
\* is still within the grace period that began at the first entry into Local mode
\* (so a QUIT after it, also after a later re-entry into Local, sets the
\* shutdown flag).
C29_QuitIgnoredOnlyAtStartup ==
    [][(mpc = "local_events" /\ mpc' # mpc /\ quit_ignored') => now < startup_until]_vars

\* C31: every recording sink that was opened is finalized exactly once by the
\* time the process has shut down, on every path: stop by 'r', shutdown while
\* recording, replacement of the camera object by the capture loop while
\* recording; and no sink is ever finalized twice.
C31_SinkFinalizedOnce ==
    /\ \A i \in DOMAIN sinks : sinks[i] <= 1
    /\ mpc = "done" => \A i \in DOMAIN sinks : sinks[i] = 1

\* recording is off, no command is executing, and the label is "00:00:00"
LabelResetWhenOff ==
    ~recording /\ (\A k \in Issuers : kpc[k] = "idle") => elapsed = 0

\* the capture thread's update_elapsed_time computes a label from start_time
\* only once the start_recording of the current recording has stored it
LabelFromCurrentStart ==
    (cpc = "elapsed_set" /\ cpc' = "rec_check") =>
        recording /\ (\A k \in Issuers : kpc[k] # "start_time")

\* C32: the elapsed label is consistent with the recording flag for every
\* interleaving of handle_command('r') with the capture thread's
\* update_elapsed_time: with recording off and no command executing the label is
\* "00:00:00", and a label that update_elapsed_time computes uses the start time
\* stored by the current recording's start_recording.
C32_ElapsedConsistent == []LabelResetWhenOff /\ [][LabelFromCurrentStart]_vars

\* C33: the standalone pygame loop always reaches a clean shutdown: on every
\* exit path of its main loop (QUIT, q/ESC, a failed re-initialisation after a
\* None frame) the cleanup runs to completion: the step taken at the cleanup
\* releases the device and goes on to pygame.quit, it does not raise.
C33_CleanShutdown ==
    [][(entry = "display_pygame" /\ mpc = "pg_cleanup") =>
          mpc' = "pg_quit" /\ released']_vars

====
